---------------------------- MODULE Spec2Model ----------------------------
(***************************************************************************)
(* District Heating System API (backend/app.py, backend/models.py,         *)
(* backend/seed_data.py).                                                  *)
(*                                                                         *)
(* The store is the tables heat_centers, demand_sites, routes and          *)
(* system_config, each a function from the primary key to the row.  A      *)
(* column value is an option: {} is NULL / None and {v} is the value v.    *)
(* Quantities (MW, km) are fixed-point integers in tenths of the unit;     *)
(* percentages and averages that the code rounds to two decimals are       *)
(* integers in hundredths.  A configuration value is text: a sequence of   *)
(* one-character strings.                                                  *)
(*                                                                         *)
(* Every path operation is an "async def" that makes blocking store calls  *)
(* and never awaits, so on the single event loop started by uvicorn.run    *)
(* one handler runs from its first query to its commit before another      *)
(* starts: each handler is one action.                                     *)
(*                                                                         *)
(* Of each table the model keeps the columns a handler reads or a          *)
(* constraint names: the NOT NULL quantity, the nullable quantity with a   *)
(* default, the boolean flag, the filter column, and the two timestamps.   *)
(* The remaining columns (name, coordinates, address, ...) are written and *)
(* read back the same way as the kept column of the same nullability.      *)
(***************************************************************************)
EXTENDS Integers, FiniteSets, Sequences, TLC

VARIABLES
    heat_centers,   \* table heat_centers: id -> row
    demand_sites,   \* table demand_sites: id -> row
    routes,         \* table routes: id -> row
    system_config,  \* table system_config: id -> row
    now,            \* the store's clock, read by func.now()
    last,           \* the operation run last and its response
    sessions,       \* the sessions get_db has opened and not yet closed
    requests        \* the requests received: request id -> its progress

store == <<heat_centers, demand_sites, routes, system_config>>
inflight == <<sessions, requests>>
vars ==
    <<heat_centers, demand_sites, routes, system_config, now, last, sessions,
      requests>>

----------------------------------------------------------------------------
(* Bounds of the model *)

MaxCenters == 2
MaxSites == 1
MaxRoutes == 2
MaxClock == 1
MaxStamped == 1
MaxRequests == 2

----------------------------------------------------------------------------
(* Option values and tables *)

None == {}
Some(v) == {v}
Val(o) == CHOOSE v \in o : TRUE

Max(S) == CHOOSE m \in S : \A x \in S : x <= m
Min(S) == CHOOSE m \in S : \A x \in S : m <= x

\* INTEGER PRIMARY KEY of SQLite without AUTOINCREMENT: the largest key in
\* the table plus one, 1 on an empty table.
NewId(tbl) == IF DOMAIN tbl = {} THEN 1 ELSE Max(DOMAIN tbl) + 1

Insert(tbl, id, row) ==
    [i \in DOMAIN tbl \cup {id} |-> IF i = id THEN row ELSE tbl[i]]

Remove(tbl, id) == [i \in DOMAIN tbl \ {id} |-> tbl[i]]

\* db.query(T).filter(T.id == id).first(): the key of the row found, or None.
FirstUnfiltered(tbl, id) ==
    IF DOMAIN tbl = {} THEN None ELSE Some(Min(DOMAIN tbl))

First(tbl, id) == IF id \in DOMAIN tbl THEN Some(id) ELSE None

\* The rows of tbl that satisfy P, summed over column col; NULL is skipped
\* as func.sum does.
RECURSIVE SumOver(_, _, _)
SumOver(tbl, ids, col) ==
    IF ids = {} THEN 0
    ELSE LET i == CHOOSE x \in ids : TRUE
         IN  (IF tbl[i][col] = None THEN 0 ELSE Val(tbl[i][col]))
             + SumOver(tbl, ids \ {i}, col)

\* A response: the operation, its path id (0 when it has none), the request
\* body or query, the HTTP status and the response body.
Response(op, id, req, status, body) ==
    [op |-> op, id |-> id, req |-> req, status |-> status, body |-> body]

\* A row as the response model serialises it: the columns and the key.
WithId(row, id) == [row |-> row, id |-> id]

----------------------------------------------------------------------------
(* models.py: columns *)

HeatCenterCols == {"max_capacity_mw", "current_output_mw", "is_active"}
HeatCenterNotNull == {"max_capacity_mw"}
HeatCenterColumnDefault ==
    [f \in {"current_output_mw", "is_active"} |->
        IF f = "current_output_mw" THEN Some(0) ELSE Some(TRUE)]

DemandSiteCols ==
    {"peak_demand_mw", "current_demand_mw", "is_connected", "site_type"}
DemandSiteNotNull == {"peak_demand_mw"}
DemandSiteColumnDefault ==
    [f \in {"current_demand_mw", "is_connected"} |->
        IF f = "current_demand_mw" THEN Some(0) ELSE Some(FALSE)]

RouteStatus == {"active", "inactive", "maintenance", "planned"}
RouteCols ==
    {"heat_center_id", "demand_site_id", "distance_km",
     "max_flow_capacity_mw", "current_flow_mw", "status"}
RouteNotNull ==
    {"heat_center_id", "demand_site_id", "distance_km", "max_flow_capacity_mw"}
RouteColumnDefault ==
    [f \in {"current_flow_mw", "status"} |->
        IF f = "current_flow_mw" THEN Some(0) ELSE Some("active")]

----------------------------------------------------------------------------
(* app.py: request schemas *)

\* HeatCenterBase / DemandSiteBase / RouteBase: the value a field takes when
\* the request leaves it out.
HeatCenterSchemaDefault == HeatCenterColumnDefault
DemandSiteSchemaDefault ==
    [f \in {"current_demand_mw", "is_connected", "site_type"} |->
        IF f = "site_type" THEN None ELSE DemandSiteColumnDefault[f]]
RouteSchemaDefault == RouteColumnDefault

\* A create body passes validation when every required field is there and
\* is not null.
ValidBody(body, required) ==
    \A f \in required : f \in DOMAIN body /\ body[f] # None

\* model.dict(): the supplied fields and the schema defaults of the others.
Dict(body, cols, schemaDefault) ==
    [f \in cols |-> IF f \in DOMAIN body THEN body[f] ELSE schemaDefault[f]]

\* The row an INSERT of the mapped object writes: a None attribute of a
\* column with a default takes the default, created_at is the server
\* default func.now() and updated_at, which has only onupdate, stays NULL.
InsertedRow(d, columnDefault) ==
    [f \in DOMAIN d \cup {"created_at", "updated_at"} |->
        IF f = "created_at" THEN Some(now)
        ELSE IF f = "updated_at" THEN None
        ELSE IF d[f] = None /\ f \in DOMAIN columnDefault THEN columnDefault[f]
        ELSE d[f]]

\* update.dict(exclude_unset=True) is the patch itself; setattr of each.
SetAttrsExcludeNone(row, patch) ==
    [f \in DOMAIN row |->
        IF f \in DOMAIN patch /\ patch[f] # None THEN patch[f] ELSE row[f]]

SetAttrsUnset(row, patch) ==
    [f \in DOMAIN row |->
        IF f \in DOMAIN patch THEN patch[f]
        ELSE IF f \in {"created_at", "updated_at"} THEN row[f]
        ELSE None]

SetAttrs(row, patch) ==
    [f \in DOMAIN row |-> IF f \in DOMAIN patch THEN patch[f] ELSE row[f]]

\* The flush of db.commit() after the setattr loop: no UPDATE is emitted when
\* no attribute has a net change; otherwise the UPDATE writes the changed
\* columns and onupdate stamps updated_at.
FlushedAlways(row, patch) ==
    [SetAttrs(row, patch) EXCEPT !["updated_at"] = Some(now)]

Flushed(row, patch) ==
    IF SetAttrs(row, patch) = row THEN row
    ELSE [SetAttrs(row, patch) EXCEPT !["updated_at"] = Some(now)]

\* The UPDATE that violates a constraint writes no column, and the session
\* that get_db closes discards the attributes that were set: the row stays.
RolledBackPartial(row, patch) ==
    [f \in DOMAIN row |->
        IF f \in DOMAIN patch /\ patch[f] # None THEN patch[f] ELSE row[f]]

RolledBack(row, patch) == row

\* The UPDATE violates a NOT NULL constraint (IntegrityError).
NullViolation(row, patch, notNull) ==
    /\ SetAttrs(row, patch) # row
    /\ \E f \in notNull : SetAttrs(row, patch)[f] = None

----------------------------------------------------------------------------
(* app.py: heat centers *)

create_heat_center(body) ==
    IF ~ValidBody(body, HeatCenterNotNull)
    THEN /\ last' = Response("create_heat_center", 0, body, 422, "validation")
         /\ UNCHANGED <<store, now>>
    ELSE LET id == NewId(heat_centers)
             row == InsertedRow(Dict(body, HeatCenterCols, HeatCenterSchemaDefault),
                                HeatCenterColumnDefault)
         IN  /\ heat_centers' = Insert(heat_centers, id, row)
             /\ last' = Response("create_heat_center", 0, body, 200, WithId(row, id))
             /\ UNCHANGED <<demand_sites, routes, system_config, now>>

get_heat_center(center_id) ==
    LET center == First(heat_centers, center_id)
    IN  /\ last' = IF center = None
                   THEN Response("get_heat_center", center_id, <<>>, 404,
                                 "Heat center not found")
                   ELSE Response("get_heat_center", center_id, <<>>, 200,
                                 WithId(heat_centers[Val(center)], Val(center)))
        /\ UNCHANGED <<store, now>>

update_heat_center(center_id, center_update) ==
    LET center == First(heat_centers, center_id)
    IN  IF center = None
        THEN /\ last' = Response("update_heat_center", center_id, center_update, 404,
                                 "Heat center not found")
             /\ UNCHANGED <<store, now>>
        ELSE IF NullViolation(heat_centers[Val(center)], center_update,
                              HeatCenterNotNull)
        THEN /\ heat_centers' =
                  [heat_centers EXCEPT ![Val(center)] =
                      RolledBack(heat_centers[Val(center)], center_update)]
             /\ last' = Response("update_heat_center", center_id, center_update, 500,
                                 "IntegrityError")
             /\ UNCHANGED <<demand_sites, routes, system_config, now>>
        ELSE LET row == Flushed(heat_centers[Val(center)], center_update)
             IN  /\ heat_centers' = [heat_centers EXCEPT ![Val(center)] = row]
                 /\ last' = Response("update_heat_center", center_id, center_update,
                                     200, WithId(row, Val(center)))
                 /\ UNCHANGED <<demand_sites, routes, system_config, now>>

\* db.query(Route).filter(Route.heat_center_id == center_id)
RoutesOfCenterActive(center_id) ==
    {r \in DOMAIN routes :
        /\ routes[r]["heat_center_id"] = Some(center_id)
        /\ routes[r]["status"] = Some("active")}

RoutesOfCenter(center_id) ==
    {r \in DOMAIN routes : routes[r]["heat_center_id"] = Some(center_id)}

delete_heat_center(center_id) ==
    LET center == First(heat_centers, center_id)
    IN  IF center = None
        THEN /\ last' = Response("delete_heat_center", center_id, <<>>, 404,
                                 "Heat center not found")
             /\ UNCHANGED <<store, now>>
        ELSE IF Cardinality(RoutesOfCenter(center_id)) > 0
        THEN /\ last' = Response("delete_heat_center", center_id, <<>>, 400,
                                 "Cannot delete heat center with active routes")
             /\ UNCHANGED <<store, now>>
        ELSE /\ heat_centers' = Remove(heat_centers, Val(center))
             /\ last' = Response("delete_heat_center", center_id, <<>>, 200,
                                 "Heat center deleted successfully")
             /\ UNCHANGED <<demand_sites, routes, system_config, now>>

----------------------------------------------------------------------------
(* app.py: demand sites *)

create_demand_site(body) ==
    IF ~ValidBody(body, DemandSiteNotNull)
    THEN /\ last' = Response("create_demand_site", 0, body, 422, "validation")
         /\ UNCHANGED <<store, now>>
    ELSE LET id == NewId(demand_sites)
             row == InsertedRow(Dict(body, DemandSiteCols, DemandSiteSchemaDefault),
                                DemandSiteColumnDefault)
         IN  /\ demand_sites' = Insert(demand_sites, id, row)
             /\ last' = Response("create_demand_site", 0, body, 200, WithId(row, id))
             /\ UNCHANGED <<heat_centers, routes, system_config, now>>

get_demand_site(site_id) ==
    LET site == First(demand_sites, site_id)
    IN  /\ last' = IF site = None
                   THEN Response("get_demand_site", site_id, <<>>, 404,
                                 "Demand site not found")
                   ELSE Response("get_demand_site", site_id, <<>>, 200,
                                 WithId(demand_sites[Val(site)], Val(site)))
        /\ UNCHANGED <<store, now>>

update_demand_site(site_id, site_update) ==
    LET site == First(demand_sites, site_id)
    IN  IF site = None
        THEN /\ last' = Response("update_demand_site", site_id, site_update, 404,
                                 "Demand site not found")
             /\ UNCHANGED <<store, now>>
        ELSE IF NullViolation(demand_sites[Val(site)], site_update, DemandSiteNotNull)
        THEN /\ demand_sites' =
                  [demand_sites EXCEPT ![Val(site)] =
                      RolledBack(demand_sites[Val(site)], site_update)]
             /\ last' = Response("update_demand_site", site_id, site_update, 500,
                                 "IntegrityError")
             /\ UNCHANGED <<heat_centers, routes, system_config, now>>
        ELSE LET row == Flushed(demand_sites[Val(site)], site_update)
             IN  /\ demand_sites' = [demand_sites EXCEPT ![Val(site)] = row]
                 /\ last' = Response("update_demand_site", site_id, site_update, 200,
                                     WithId(row, Val(site)))
                 /\ UNCHANGED <<heat_centers, routes, system_config, now>>

\* db.query(Route).filter(Route.demand_site_id == site_id)
RoutesOfSiteActive(site_id) ==
    {r \in DOMAIN routes :
        /\ routes[r]["demand_site_id"] = Some(site_id)
        /\ routes[r]["status"] = Some("active")}

RoutesOfSite(site_id) ==
    {r \in DOMAIN routes : routes[r]["demand_site_id"] = Some(site_id)}

delete_demand_site(site_id) ==
    LET site == First(demand_sites, site_id)
    IN  IF site = None
        THEN /\ last' = Response("delete_demand_site", site_id, <<>>, 404,
                                 "Demand site not found")
             /\ UNCHANGED <<store, now>>
        ELSE IF Cardinality(RoutesOfSite(site_id)) > 0
        THEN /\ last' = Response("delete_demand_site", site_id, <<>>, 400,
                                 "Cannot delete demand site with active routes")
             /\ UNCHANGED <<store, now>>
        ELSE /\ demand_sites' = Remove(demand_sites, Val(site))
             /\ last' = Response("delete_demand_site", site_id, <<>>, 200,
                                 "Demand site deleted successfully")
             /\ UNCHANGED <<heat_centers, routes, system_config, now>>

----------------------------------------------------------------------------
(* app.py: routes *)

\* The two endpoint lookups of create_route, the heat center first: the
\* detail of the 404 raised, "" when both resolve.
MissingEndpointSiteFirst(body) ==
    IF First(demand_sites, Val(body["demand_site_id"])) = None
    THEN "Demand site not found"
    ELSE IF First(heat_centers, Val(body["heat_center_id"])) = None
    THEN "Heat center not found"
    ELSE ""

MissingEndpointCenterOnly(body) ==
    IF First(heat_centers, Val(body["heat_center_id"])) = None
    THEN "Heat center not found"
    ELSE ""

MissingEndpoint(body) ==
    IF First(heat_centers, Val(body["heat_center_id"])) = None
    THEN "Heat center not found"
    ELSE IF First(demand_sites, Val(body["demand_site_id"])) = None
    THEN "Demand site not found"
    ELSE ""

\* The duplicate check of create_route: the routes with both endpoint ids.
ExistingRouteSwapped(hc, ds) ==
    {r \in DOMAIN routes :
        /\ routes[r]["heat_center_id"] = Some(ds)
        /\ routes[r]["demand_site_id"] = Some(hc)}

ExistingRouteSiteOnly(hc, ds) ==
    {r \in DOMAIN routes : routes[r]["demand_site_id"] = Some(ds)}

ExistingRoute(hc, ds) ==
    {r \in DOMAIN routes :
        /\ routes[r]["heat_center_id"] = Some(hc)
        /\ routes[r]["demand_site_id"] = Some(ds)}

create_route(body) ==
    IF ~ValidBody(body, RouteNotNull)
    THEN /\ last' = Response("create_route", 0, body, 422, "validation")
         /\ UNCHANGED <<store, now>>
    ELSE IF MissingEndpoint(body) # ""
    THEN /\ last' = Response("create_route", 0, body, 404, MissingEndpoint(body))
         /\ UNCHANGED <<store, now>>
    ELSE IF ExistingRoute(Val(body["heat_center_id"]),
                          Val(body["demand_site_id"])) # {}
    THEN /\ last' = Response("create_route", 0, body, 400,
                             "Route already exists between these locations")
         /\ UNCHANGED <<store, now>>
    ELSE LET id == NewId(routes)
             row == InsertedRow(Dict(body, RouteCols, RouteSchemaDefault),
                                RouteColumnDefault)
         IN  /\ routes' = Insert(routes, id, row)
             /\ last' = Response("create_route", 0, body, 200, WithId(row, id))
             /\ UNCHANGED <<heat_centers, demand_sites, system_config, now>>

get_route(route_id) ==
    LET route == First(routes, route_id)
    IN  /\ last' = IF route = None
                   THEN Response("get_route", route_id, <<>>, 404, "Route not found")
                   ELSE Response("get_route", route_id, <<>>, 200,
                                 WithId(routes[Val(route)], Val(route)))
        /\ UNCHANGED <<store, now>>

delete_route_inactive(route_id) ==
    LET route == First(routes, route_id)
    IN  IF route = None
        THEN /\ last' = Response("delete_route", route_id, <<>>, 404,
                                 "Route not found")
             /\ UNCHANGED <<store, now>>
        ELSE IF routes[Val(route)]["status"] = Some("active")
        THEN /\ last' = Response("delete_route", route_id, <<>>, 400,
                                 "Cannot delete an active route")
             /\ UNCHANGED <<store, now>>
        ELSE /\ routes' = Remove(routes, Val(route))
             /\ last' = Response("delete_route", route_id, <<>>, 200,
                                 "Route deleted successfully")
             /\ UNCHANGED <<heat_centers, demand_sites, system_config, now>>

delete_route(route_id) ==
    LET route == First(routes, route_id)
    IN  IF route = None
        THEN /\ last' = Response("delete_route", route_id, <<>>, 404,
                                 "Route not found")
             /\ UNCHANGED <<store, now>>
        ELSE /\ routes' = Remove(routes, Val(route))
             /\ last' = Response("delete_route", route_id, <<>>, 200,
                                 "Route deleted successfully")
             /\ UNCHANGED <<heat_centers, demand_sites, system_config, now>>

----------------------------------------------------------------------------
(* app.py: the list endpoints *)

\* Query(0, ge=0) and Query(100, ge=1, le=1000): a parameter left out takes
\* the default, one outside its range is a validation error.
SkipDefault == 0
LimitDefault == 100
LimitMin == 1
LimitMax == 1000

QueryInt(param, default) == IF param = None THEN default ELSE Val(param)

ValidPageNoUpper(skip, limit) ==
    /\ QueryInt(skip, SkipDefault) >= 0
    /\ QueryInt(limit, LimitDefault) >= LimitMin

ValidPage(skip, limit) ==
    /\ QueryInt(skip, SkipDefault) >= 0
    /\ QueryInt(limit, LimitDefault) >= LimitMin
    /\ QueryInt(limit, LimitDefault) <= LimitMax

\* The number of rows of query.offset(skip).limit(limit) over n rows.
PageSize(n, skip, limit) ==
    LET rest == IF n > skip THEN n - skip ELSE 0
    IN  IF rest < limit THEN rest ELSE limit

\* The query has no ORDER BY, so the store may return the rows in any order:
\* the page is any set of PageSize rows of the filtered ones.
Pages(ids, skip, limit) ==
    {S \in SUBSET ids : Cardinality(S) = PageSize(Cardinality(ids), skip, limit)}

Rows(tbl, S) == [i \in S |-> tbl[i]]

\* "if param:" of an optional filter: it is applied when the parameter is
\* given and is not the falsy value of its type (0, the empty string).
Truthy(param, falsy) == param # None /\ param # Some(falsy)

get_heat_centers(skip, limit, active_only) ==
    LET q == [skip |-> skip, limit |-> limit, active_only |-> active_only]
        found == {i \in DOMAIN heat_centers :
                    active_only => heat_centers[i]["is_active"] = Some(TRUE)}
    IN  /\ IF ~ValidPage(skip, limit)
           THEN last' = Response("get_heat_centers", 0, q, 422, "validation")
           ELSE \E S \in Pages(found, QueryInt(skip, SkipDefault),
                               QueryInt(limit, LimitDefault)) :
                  last' = Response("get_heat_centers", 0, q, 200,
                                   Rows(heat_centers, S))
        /\ UNCHANGED <<store, now>>

get_demand_sites(skip, limit, connected_only, site_type) ==
    LET q == [skip |-> skip, limit |-> limit, connected_only |-> connected_only,
              site_type |-> site_type]
        found == {i \in DOMAIN demand_sites :
                    /\ connected_only =>
                          demand_sites[i]["is_connected"] = Some(TRUE)
                    /\ Truthy(site_type, "") =>
                          demand_sites[i]["site_type"] = site_type}
    IN  /\ IF ~ValidPage(skip, limit)
           THEN last' = Response("get_demand_sites", 0, q, 422, "validation")
           ELSE \E S \in Pages(found, QueryInt(skip, SkipDefault),
                               QueryInt(limit, LimitDefault)) :
                  last' = Response("get_demand_sites", 0, q, 200,
                                   Rows(demand_sites, S))
        /\ UNCHANGED <<store, now>>

get_routes(skip, limit, status, heat_center_id, demand_site_id) ==
    LET q == [skip |-> skip, limit |-> limit, status |-> status,
              heat_center_id |-> heat_center_id,
              demand_site_id |-> demand_site_id]
        found == {i \in DOMAIN routes :
                    /\ Truthy(status, "") => routes[i]["status"] = status
                    /\ Truthy(heat_center_id, 0) =>
                          routes[i]["heat_center_id"] = heat_center_id
                    /\ Truthy(demand_site_id, 0) =>
                          routes[i]["demand_site_id"] = demand_site_id}
    IN  /\ IF ~ValidPage(skip, limit) \/ status \notin {None} \cup
                                          {Some(v) : v \in RouteStatus}
           THEN last' = Response("get_routes", 0, q, 422, "validation")
           ELSE \E S \in Pages(found, QueryInt(skip, SkipDefault),
                               QueryInt(limit, LimitDefault)) :
                  last' = Response("get_routes", 0, q, 200, Rows(routes, S))
        /\ UNCHANGED <<store, now>>

----------------------------------------------------------------------------
(* app.py: analytics *)

\* round(num / den, 2) scaled by 100, for den > 0: Python rounds the quotient
\* to the nearest hundredth and a tie to the even one.  num and den are
\* integers, so the quotient is taken exactly.
Round2(num, den) ==
    LET n == num * 100
        q == n \div den
        r == n - q * den
    IN  IF 2 * r < den THEN q
        ELSE IF 2 * r > den THEN q + 1
        ELSE IF q % 2 = 0 THEN q ELSE q + 1

\* round(num / den, 2): None stands for the ZeroDivisionError that the
\* division raises when den is 0.
Quotient(num, den) == IF den = 0 THEN None ELSE Some(Round2(num, den))

\* round((a / b * 100) if b > 0 else 0, 2), in hundredths of a percent.
PercentNotNegative(a, b) == IF b >= 0 THEN Quotient(a * 100, b) ELSE Some(0)

Percent(a, b) == IF b > 0 THEN Quotient(a * 100, b) ELSE Some(0)

\* round(total / count, 2) if count > 0 else 0, in hundredths; total is in
\* tenths.
Average(total, count) ==
    IF count > 0 THEN Quotient(total, 10 * count) ELSE Some(0)

\* db.query(func.sum(col)).scalar() or 0
ScalarSumActive(tbl, col) ==
    SumOver(tbl, {i \in DOMAIN tbl : "is_active" \in DOMAIN tbl[i] =>
                                        tbl[i]["is_active"] = Some(TRUE)}, col)

ScalarSum(tbl, col) == SumOver(tbl, DOMAIN tbl, col)

Overview ==
    LET total_capacity == ScalarSum(heat_centers, "max_capacity_mw")
        current_output == ScalarSum(heat_centers, "current_output_mw")
        total_demand == ScalarSum(demand_sites, "peak_demand_mw")
        current_demand == ScalarSum(demand_sites, "current_demand_mw")
        total_pipeline_km == ScalarSum(routes, "distance_km")
        total_routes == Cardinality(DOMAIN routes)
    IN  [ total_heat_centers |-> Cardinality(DOMAIN heat_centers),
          active_heat_centers |->
            Cardinality({i \in DOMAIN heat_centers :
                            heat_centers[i]["is_active"] = Some(TRUE)}),
          total_demand_sites |-> Cardinality(DOMAIN demand_sites),
          connected_demand_sites |->
            Cardinality({i \in DOMAIN demand_sites :
                            demand_sites[i]["is_connected"] = Some(TRUE)}),
          total_routes |-> total_routes,
          active_routes |->
            Cardinality({i \in DOMAIN routes :
                            routes[i]["status"] = Some("active")}),
          total_generation_capacity_mw |-> total_capacity,
          current_generation_mw |-> current_output,
          capacity_utilization_percent |-> Percent(current_output, total_capacity),
          total_peak_demand_mw |-> total_demand,
          current_demand_mw |-> current_demand,
          demand_coverage_percent |-> Percent(total_capacity, total_demand),
          total_pipeline_km |-> total_pipeline_km,
          average_route_distance_km |-> Average(total_pipeline_km, total_routes) ]

\* The fields of the overview that are quotients.
Quotients ==
    {"capacity_utilization_percent", "demand_coverage_percent",
     "average_route_distance_km"}

\* The response body: each quotient's value.
Evaluated(view, quotients) ==
    [f \in DOMAIN view |-> IF f \in quotients THEN Val(view[f]) ELSE view[f]]

\* The overview computes its numbers and writes nothing.
get_analytics_overview_stored ==
    /\ last' = Response("get_analytics_overview", 0, <<>>, 200,
                        Evaluated(Overview, Quotients))
    /\ heat_centers' =
          [i \in DOMAIN heat_centers |->
              [heat_centers[i] EXCEPT !["current_output_mw"] = Some(0)]]
    /\ UNCHANGED <<demand_sites, routes, system_config, now>>

get_analytics_overview ==
    /\ last' = IF \E f \in Quotients : Overview[f] = None
               THEN Response("get_analytics_overview", 0, <<>>, 500,
                             "ZeroDivisionError")
               ELSE Response("get_analytics_overview", 0, <<>>, 200,
                             Evaluated(Overview, Quotients))
    /\ UNCHANGED <<store, now>>

\* The per-route entries of the two per-entity views.
RouteEntries(ids, other) ==
    { [ route_id |-> r,
        endpoint |-> routes[r][other],
        distance_km |-> routes[r]["distance_km"],
        current_flow_mw |-> routes[r]["current_flow_mw"],
        max_capacity_mw |-> routes[r]["max_flow_capacity_mw"],
        status |-> routes[r]["status"] ] : r \in ids }

\* A quotient or a sum over a None operand raises TypeError.
get_heat_center_analytics(center_id) ==
    /\ last' =
        IF First(heat_centers, center_id) = None
        THEN Response("get_heat_center_analytics", center_id, <<>>, 404,
                      "Heat center not found")
        ELSE LET center == heat_centers[Val(First(heat_centers, center_id))]
                 rs == RoutesOfCenter(center_id)
             IN  IF \/ \E r \in rs : routes[r]["current_flow_mw"] = None
                    \/ /\ Val(center["max_capacity_mw"]) > 0
                       /\ center["current_output_mw"] = None
                 THEN Response("get_heat_center_analytics", center_id, <<>>, 500,
                               "TypeError")
                 ELSE Response("get_heat_center_analytics", center_id, <<>>, 200,
                        [ capacity_utilization_percent |->
                            IF Val(center["max_capacity_mw"]) > 0
                            THEN Val(Percent(Val(center["current_output_mw"]),
                                             Val(center["max_capacity_mw"])))
                            ELSE 0,
                          connected_demand_mw |-> SumOver(routes, rs, "current_flow_mw"),
                          number_of_routes |-> Cardinality(rs),
                          routes |-> RouteEntries(rs, "demand_site_id") ])
    /\ UNCHANGED <<store, now>>

get_demand_site_analytics(site_id) ==
    /\ last' =
        IF First(demand_sites, site_id) = None
        THEN Response("get_demand_site_analytics", site_id, <<>>, 404,
                      "Demand site not found")
        ELSE LET site == demand_sites[Val(First(demand_sites, site_id))]
                 rs == RoutesOfSite(site_id)
                 total_supply_capacity == SumOver(routes, rs, "max_flow_capacity_mw")
             IN  IF \/ \E r \in rs : routes[r]["current_flow_mw"] = None
                    \/ /\ Val(site["peak_demand_mw"]) > 0
                       /\ site["current_demand_mw"] = None
                 THEN Response("get_demand_site_analytics", site_id, <<>>, 500,
                               "TypeError")
                 ELSE Response("get_demand_site_analytics", site_id, <<>>, 200,
                        [ total_supply_capacity_mw |-> total_supply_capacity,
                          current_supply_mw |-> SumOver(routes, rs, "current_flow_mw"),
                          demand_coverage_percent |->
                            Val(Percent(total_supply_capacity,
                                        Val(site["peak_demand_mw"]))),
                          current_utilization_percent |->
                            IF Val(site["peak_demand_mw"]) > 0
                            THEN Val(Percent(Val(site["current_demand_mw"]),
                                             Val(site["peak_demand_mw"])))
                            ELSE 0,
                          routes |-> RouteEntries(rs, "heat_center_id") ])
    /\ UNCHANGED <<store, now>>

----------------------------------------------------------------------------
(* models.py: SystemConfig; app.py: GET /config and POST /config *)

\* Of system_config the model keeps the key, the value, the type tag, the
\* description and the flag; the two timestamps are written as those of the
\* other tables are and no handler reads them.
SystemConfigCols ==
    {"config_key", "config_value", "config_type", "description", "is_active"}
SystemConfigColumnDefault ==
    [f \in {"config_type", "is_active"} |->
        IF f = "config_type" THEN Some("string") ELSE Some(TRUE)]

\* config_type: str = "string"
ConfigTypeDefault == "string"

Digits == <<"0", "1", "2", "3", "4", "5", "6", "7", "8", "9">>
Upper == <<"A", "B", "C", "D", "E", "F", "G", "H", "I", "J", "K", "L", "M",
           "N", "O", "P", "Q", "R", "S", "T", "U", "V", "W", "X", "Y", "Z">>
Lower == <<"a", "b", "c", "d", "e", "f", "g", "h", "i", "j", "k", "l", "m",
           "n", "o", "p", "q", "r", "s", "t", "u", "v", "w", "x", "y", "z">>

IsDigit(c) == \E i \in DOMAIN Digits : Digits[i] = c
DigitValue(c) == (CHOOSE i \in DOMAIN Digits : Digits[i] = c) - 1
AllDigits(text) == Len(text) > 0 /\ \A i \in DOMAIN text : IsDigit(text[i])

\* The number a run of decimal digits denotes.
RECURSIVE Decimal(_)
Decimal(text) ==
    IF text = <<>> THEN 0
    ELSE 10 * Decimal(SubSeq(text, 1, Len(text) - 1))
            + DigitValue(text[Len(text)])

RECURSIVE Power10(_)
Power10(n) == IF n = 0 THEN 1 ELSE 10 * Power10(n - 1)

\* A Python value of the response: the value under the name of its type.
Typed(t, v) == t :> v

Unsigned(text) ==
    IF text # <<>> /\ text[1] \in {"+", "-"} THEN Tail(text) ELSE text
Sign(text) == IF text # <<>> /\ text[1] = "-" THEN 0 - 1 ELSE 1

\* int(value): an optional sign and decimal digits; None stands for the
\* ValueError raised on any other text.
ParseInt(text) ==
    IF AllDigits(Unsigned(text))
    THEN Some(Typed("int", Sign(text) * Decimal(Unsigned(text))))
    ELSE None

\* float(value): an optional sign, then digits with at most one point and a
\* digit on one side of it at least, kept as numerator and denominator; None
\* stands for the ValueError.
PointAt(text) == {i \in DOMAIN text : text[i] = "."}
ParseFloat(text) ==
    LET u == Unsigned(text)
    IN  IF AllDigits(u)
        THEN Some(Typed("float", [num |-> Sign(text) * Decimal(u), den |-> 1]))
        ELSE IF Cardinality(PointAt(u)) = 1 /\ Len(u) > 1
        THEN LET p == CHOOSE i \in PointAt(u) : TRUE
                 whole == SubSeq(u, 1, p - 1)
                 frac == SubSeq(u, p + 1, Len(u))
             IN  IF \A i \in DOMAIN u : i = p \/ IsDigit(u[i])
                 THEN Some(Typed("float",
                        [num |-> Sign(text) * Decimal(whole \o frac),
                         den |-> Power10(Len(frac))]))
                 ELSE None
        ELSE None

\* value.lower()
LowerCase(text) ==
    [i \in DOMAIN text |->
        IF \E k \in DOMAIN Upper : Upper[k] = text[i]
        THEN Lower[CHOOSE k \in DOMAIN Upper : Upper[k] = text[i]]
        ELSE text[i]]

\* value.lower() in ("true", "1", "yes", "on")
TrueTexts ==
    { <<"t", "r", "u", "e">>, <<"1">>, <<"y", "e", "s">>, <<"o", "n">> }
ParseBool(text) == Some(Typed("bool", LowerCase(text) \in TrueTexts))

\* json.loads(value) on the texts that are one JSON token: a number without
\* fraction or exponent, true, false, null, or an empty object or array.
\* None stands for the JSONDecodeError; Python's int() takes "+1" and "01"
\* and JSON does not.
JsonLoads(text) ==
    IF /\ AllDigits(Unsigned(text))
       /\ (text[1] # "+")
       /\ (Len(Unsigned(text)) > 1 => Unsigned(text)[1] # "0")
    THEN Some(Typed("int", Sign(text) * Decimal(Unsigned(text))))
    ELSE IF text = <<"t", "r", "u", "e">> THEN Some(Typed("bool", TRUE))
    ELSE IF text = <<"f", "a", "l", "s", "e">> THEN Some(Typed("bool", FALSE))
    ELSE IF text = <<"n", "u", "l", "l">> THEN Some(Typed("NoneType", "None"))
    ELSE IF text = <<"{", "}">> THEN Some(Typed("dict", "{}"))
    ELSE IF text = <<"[", "]">> THEN Some(Typed("list", "[]"))
    ELSE None

\* The conversion of get_config by the type tag; any other tag, "string"
\* among them, leaves the text as it is.
Coerce(config_type, text) ==
    IF config_type = Some("integer") THEN ParseInt(text)
    ELSE IF config_type = Some("float") THEN ParseFloat(text)
    ELSE IF config_type = Some("boolean") THEN ParseBool(text)
    ELSE IF config_type = Some("json") THEN JsonLoads(text)
    ELSE Some(Typed("str", text))

\* The default map settings; the coordinates are in ten-thousandths.
DefaultConfig ==
    [ default_zoom |-> Typed("int", 10),
      center_lat |-> Typed("float", [num |-> 593293, den |-> 10000]),
      center_lng |-> Typed("float", [num |-> 180686, den |-> 10000]),
      heat_center_icon |-> Typed("str", "power-plant"),
      demand_site_icon |-> Typed("str", "building"),
      route_color |-> Typed("str", "#ff4444"),
      route_width |-> Typed("int", 3),
      max_zoom |-> Typed("int", 18),
      min_zoom |-> Typed("int", 5) ]

\* db.query(SystemConfig).filter(SystemConfig.is_active == True).all()
ActiveConfigsAll == DOMAIN system_config

ActiveConfigs ==
    {i \in DOMAIN system_config : system_config[i]["is_active"] = Some(TRUE)}

\* The row of a key among the rows ids.
ConfigOf(key, ids) ==
    CHOOSE i \in ids : system_config[i]["config_key"] = Some(key)

\* config_dict after the loop: of each active key the converted value.
ConfigDict ==
    [k \in {Val(system_config[i]["config_key"]) : i \in ActiveConfigs} |->
        LET row == system_config[ConfigOf(k, ActiveConfigs)]
        IN  Val(Coerce(row["config_type"], Val(row["config_value"])))]

\* A conversion that raises ends the request: nothing is returned.
get_config_partial ==
    LET good == {i \in ActiveConfigs :
                    Coerce(system_config[i]["config_type"],
                           Val(system_config[i]["config_value"])) # None}
        dict == [k \in {Val(system_config[i]["config_key"]) : i \in good} |->
                    LET row == system_config[ConfigOf(k, good)]
                    IN  Val(Coerce(row["config_type"], Val(row["config_value"])))]
    IN  /\ last' =
              IF good = {}
              THEN Response("get_config", 0, <<>>, 200,
                            [map_config |-> DefaultConfig])
              ELSE Response("get_config", 0, <<>>, 200, [map_config |-> dict])
        /\ UNCHANGED <<store, now>>

get_config ==
    /\ last' =
        IF \E i \in ActiveConfigs :
              Coerce(system_config[i]["config_type"],
                     Val(system_config[i]["config_value"])) = None
        THEN Response("get_config", 0, <<>>, 500, "ValueError")
        ELSE IF ActiveConfigs = {}
        THEN Response("get_config", 0, <<>>, 200, [map_config |-> DefaultConfig])
        ELSE Response("get_config", 0, <<>>, 200, [map_config |-> ConfigDict])
    /\ UNCHANGED <<store, now>>

\* db.query(SystemConfig).filter(SystemConfig.config_key == config_key).first()
FirstConfig(config_key) ==
    LET found == {i \in DOMAIN system_config :
                    system_config[i]["config_key"] = Some(config_key)}
    IN  IF found = {} THEN None ELSE Some(Min(found))

\* "if description:" of set_config: the description is written when it is
\* given and is not empty.
DescriptionAlways(description, stored) == description

Description(description, stored) ==
    IF Truthy(description, "") THEN description ELSE stored

set_config(config_key, config_value, config_type, description) ==
    LET q == [config_key |-> config_key, config_value |-> config_value,
              config_type |-> config_type, description |-> description]
        type == IF config_type = None THEN Some(ConfigTypeDefault)
                ELSE config_type
        config == FirstConfig(Val(config_key))
    IN  IF config_key = None \/ config_value = None
        THEN /\ last' = Response("set_config", 0, q, 422, "validation")
             /\ UNCHANGED <<store, now>>
        ELSE /\ system_config' =
                  IF config # None
                  THEN [system_config EXCEPT ![Val(config)] =
                          [@ EXCEPT !["config_value"] = config_value,
                                    !["config_type"] = type,
                                    !["description"] =
                                        Description(description, @)]]
                  ELSE Insert(system_config, NewId(system_config),
                         [f \in SystemConfigCols |->
                            IF f = "config_key" THEN config_key
                            ELSE IF f = "config_value" THEN config_value
                            ELSE IF f = "config_type" THEN type
                            ELSE IF f = "description" THEN description
                            ELSE SystemConfigColumnDefault[f]])
             /\ last' = Response("set_config", 0, q, 200,
                                 <<"Configuration updated successfully",
                                   Val(config_key)>>)
             /\ UNCHANGED <<heat_centers, demand_sites, routes, now>>

\* GET /health reads the wall clock and not the store.
health_check ==
    /\ last' = Response("health_check", 0, <<>>, 200,
                        [status |-> "healthy", version |-> "1.0.0"])
    /\ UNCHANGED <<store, now>>

----------------------------------------------------------------------------
(* seed_data.py *)

\* HeatCenter(...), DemandSite(...), Route(...): an attribute the
\* constructor is not given is None.
Mapped(kwargs, cols) ==
    [f \in cols |-> IF f \in DOMAIN kwargs THEN kwargs[f] ELSE None]

SeedHeatCenter(max, cur) ==
    "max_capacity_mw" :> Some(max) @@ "current_output_mw" :> Some(cur)
        @@ "is_active" :> Some(TRUE)

SeedHeatCenters ==
    << SeedHeatCenter(450, 325), SeedHeatCenter(750, 582),
       SeedHeatCenter(350, 287), SeedHeatCenter(250, 198) >>

SeedDemandSite(type, peak, cur, connected) ==
    "site_type" :> Some(type) @@ "peak_demand_mw" :> Some(peak)
        @@ "current_demand_mw" :> Some(cur) @@ "is_connected" :> Some(connected)

SeedDemandSites ==
    << SeedDemandSite("Hotel", 85, 62, TRUE),
       SeedDemandSite("Residential", 123, 89, TRUE),
       SeedDemandSite("Commercial", 157, 114, TRUE),
       SeedDemandSite("Healthcare", 221, 185, FALSE),
       SeedDemandSite("Industrial", 289, 217, FALSE) >>

\* centers[c] and sites[d] of the two queries, counted from 0, are the rows
\* with keys c + 1 and d + 1 of the tables just filled.
SeedRoute(c, d, km, max, cur) ==
    "heat_center_id" :> Some(c + 1) @@ "demand_site_id" :> Some(d + 1)
        @@ "distance_km" :> Some(km) @@ "max_flow_capacity_mw" :> Some(max)
        @@ "current_flow_mw" :> Some(cur) @@ "status" :> Some("active")

SeedRoutes ==
    << SeedRoute(0, 0, 8, 100, 62), SeedRoute(2, 1, 12, 150, 89),
       SeedRoute(1, 2, 21, 200, 114) >>

\* The three tables are emptied and filled again, so the keys start at 1.
seed_database ==
    /\ heat_centers' =
          [i \in DOMAIN SeedHeatCenters |->
              InsertedRow(Mapped(SeedHeatCenters[i], HeatCenterCols),
                          HeatCenterColumnDefault)]
    /\ demand_sites' =
          [i \in DOMAIN SeedDemandSites |->
              InsertedRow(Mapped(SeedDemandSites[i], DemandSiteCols),
                          DemandSiteColumnDefault)]
    /\ routes' =
          [i \in DOMAIN SeedRoutes |->
              InsertedRow(Mapped(SeedRoutes[i], RouteCols), RouteColumnDefault)]
    /\ last' = Response("seed_database", 0, <<>>, 0, "Database seeded successfully")
    /\ UNCHANGED <<system_config, now, inflight>>

----------------------------------------------------------------------------
(* The clock of the store moves between requests. *)

Tick ==
    /\ now < MaxClock
    /\ now' = now + 1
    /\ UNCHANGED <<store, last, inflight>>

Init ==
    /\ heat_centers = <<>>
    /\ demand_sites = <<>>
    /\ routes = <<>>
    /\ system_config = <<>>
    /\ now = 0
    /\ last = Response("none", 0, <<>>, 0, <<>>)
    /\ sessions = {}
    /\ requests = <<>>

----------------------------------------------------------------------------
(* Spec: the CRUD requests on the three tables. *)

HeatCenterBodies == { "max_capacity_mw" :> Some(100) }

HeatCenterPatches == { "is_active" :> Some(FALSE) }

DemandSiteBodies == { "peak_demand_mw" :> Some(80) }

\* The demand site update of this specification carries no field; SpecUpdate
\* draws the updates that change fields.
DemandSitePatches == { <<>> }

\* The routes out of heat center 1 are planned ones, the others take the
\* default status.
RouteBody(h, d) ==
    "heat_center_id" :> Some(h) @@ "demand_site_id" :> Some(d)
        @@ "distance_km" :> Some(8) @@ "max_flow_capacity_mw" :> Some(100)
        @@ (IF h = 1 THEN "status" :> Some("planned") ELSE <<>>)

RouteBodies ==
    { RouteBody(h, d) : h \in 1 .. MaxCenters + 1, d \in 1 .. MaxSites + 1 }

CenterIds == 1 .. MaxCenters + 1
SiteIds == 1 .. MaxSites + 1
RouteIds == 1 .. MaxRoutes + 1

Next ==
    \/ \E b \in HeatCenterBodies :
          /\ create_heat_center(b)
          /\ DOMAIN heat_centers' \subseteq 1 .. MaxCenters
          /\ UNCHANGED inflight
    \/ \E i \in CenterIds : get_heat_center(i) /\ UNCHANGED inflight
    \/ \E i \in CenterIds, p \in HeatCenterPatches :
          /\ update_heat_center(i, p)
          /\ UNCHANGED inflight
    \/ \E i \in CenterIds : delete_heat_center(i) /\ UNCHANGED inflight
    \/ \E b \in DemandSiteBodies :
          /\ create_demand_site(b)
          /\ DOMAIN demand_sites' \subseteq 1 .. MaxSites
          /\ UNCHANGED inflight
    \/ \E i \in SiteIds : get_demand_site(i) /\ UNCHANGED inflight
    \/ \E i \in SiteIds, p \in DemandSitePatches :
          /\ update_demand_site(i, p)
          /\ UNCHANGED inflight
    \/ \E i \in SiteIds : delete_demand_site(i) /\ UNCHANGED inflight
    \/ \E b \in RouteBodies :
          /\ create_route(b)
          /\ DOMAIN routes' \subseteq 1 .. MaxRoutes
          /\ UNCHANGED inflight
    \/ \E i \in RouteIds : get_route(i) /\ UNCHANGED inflight
    \/ \E i \in RouteIds : delete_route(i) /\ UNCHANGED inflight
    \/ \E i \in CenterIds : get_heat_center_analytics(i) /\ UNCHANGED inflight
    \/ \E i \in SiteIds : get_demand_site_analytics(i) /\ UNCHANGED inflight

Spec == Init /\ [][Next]_vars

----------------------------------------------------------------------------
(* SpecUpdate: partial updates of heat centers and demand sites. *)

\* No field; a value equal to the stored one; a new value; null for the
\* NOT NULL column; null for a nullable column; two fields at once.
HeatCenterUpdates ==
    { <<>>,
      "max_capacity_mw" :> Some(100),
      "max_capacity_mw" :> Some(200),
      "max_capacity_mw" :> None,
      "current_output_mw" :> None,
      "current_output_mw" :> Some(50) @@ "is_active" :> Some(FALSE) }

DemandSiteUpdates ==
    { <<>>,
      "peak_demand_mw" :> None,
      "site_type" :> Some("Hotel") @@ "is_connected" :> None }

NextUpdate ==
    \/ \E b \in HeatCenterBodies :
          /\ create_heat_center(b)
          /\ DOMAIN heat_centers' \subseteq 1 .. MaxCenters
          /\ UNCHANGED inflight
    \/ \E i \in CenterIds, p \in HeatCenterUpdates :
          /\ update_heat_center(i, p)
          /\ UNCHANGED inflight
    \/ \E b \in DemandSiteBodies :
          /\ create_demand_site(b)
          /\ DOMAIN demand_sites' \subseteq 1 .. MaxSites
          /\ UNCHANGED inflight
    \/ \E i \in SiteIds, p \in DemandSiteUpdates :
          /\ update_demand_site(i, p)
          /\ UNCHANGED inflight

SpecUpdate == Init /\ [][NextUpdate]_vars

----------------------------------------------------------------------------
(* SpecTime: the timestamps of the rows while the clock moves. *)

HeatCenterTouches ==
    { <<>>, "max_capacity_mw" :> Some(100), "is_active" :> Some(FALSE) }

DemandSiteTouches ==
    { <<>>, "peak_demand_mw" :> Some(80), "is_connected" :> Some(TRUE) }

StampedIds == 1 .. MaxStamped + 1

NextTime ==
    \/ Tick
    \/ \E b \in HeatCenterBodies :
          /\ create_heat_center(b)
          /\ DOMAIN heat_centers' \subseteq 1 .. MaxStamped
          /\ UNCHANGED inflight
    \/ \E i \in StampedIds, p \in HeatCenterTouches :
          /\ update_heat_center(i, p)
          /\ UNCHANGED inflight
    \/ \E i \in StampedIds : delete_heat_center(i) /\ UNCHANGED inflight
    \/ \E b \in DemandSiteBodies :
          /\ create_demand_site(b)
          /\ DOMAIN demand_sites' \subseteq 1 .. MaxStamped
          /\ UNCHANGED inflight
    \/ \E i \in StampedIds, p \in DemandSiteTouches :
          /\ update_demand_site(i, p)
          /\ UNCHANGED inflight

SpecTime == Init /\ [][NextTime]_vars

----------------------------------------------------------------------------
(* SpecList: the list endpoints over a store that grows. *)

HeatCenterListBodies ==
    { "max_capacity_mw" :> Some(100),
      "max_capacity_mw" :> Some(100) @@ "is_active" :> Some(FALSE) }

DemandSiteListBodies ==
    { "peak_demand_mw" :> Some(80) @@ "site_type" :> Some("Hotel")
        @@ "is_connected" :> Some(TRUE) }

RouteListBodies == { RouteBody(1, 1), RouteBody(2, 1) }

\* <<skip, limit>> of the list requests: the defaults, the ends of the range
\* of limit and the values beside them, a negative skip, a page that is cut.
PageQueries ==
    { <<None, None>>, <<None, Some(0)>>, <<None, Some(1)>>,
      <<None, Some(LimitMax)>>, <<None, Some(LimitMax + 1)>>,
      <<None, Some(5 * LimitMax)>>, <<Some(0 - 1), None>>, <<Some(1), Some(1)>>,
      <<Some(1), Some(5 * LimitMax)>> }

\* <<connected_only, site_type>> and <<status, heat_center_id>>
DemandSiteFilters ==
    { <<FALSE, None>>, <<TRUE, None>>, <<TRUE, Some("Hotel")>>, <<FALSE, Some("")>> }
RouteFilters ==
    { <<None, None>>, <<Some("planned"), None>>, <<None, Some(2)>>,
      <<None, Some(0)>>, <<Some("planned"), Some(2)>> }

NextList ==
    \/ \E b \in HeatCenterListBodies :
          /\ create_heat_center(b)
          /\ DOMAIN heat_centers' \subseteq 1 .. MaxCenters
          /\ UNCHANGED inflight
    \/ \E b \in DemandSiteListBodies :
          /\ create_demand_site(b)
          /\ DOMAIN demand_sites' \subseteq 1 .. MaxSites
          /\ UNCHANGED inflight
    \/ \E b \in RouteListBodies :
          /\ create_route(b)
          /\ DOMAIN routes' \subseteq 1 .. MaxRoutes
          /\ UNCHANGED inflight
    \/ \E q \in PageQueries, a \in BOOLEAN :
          /\ get_heat_centers(q[1], q[2], a)
          /\ UNCHANGED inflight
    \/ \E q \in PageQueries, f \in DemandSiteFilters :
          /\ get_demand_sites(q[1], q[2], f[1], f[2])
          /\ UNCHANGED inflight
    \/ \E q \in PageQueries, f \in RouteFilters :
          /\ get_routes(q[1], q[2], f[1], f[2], None)
          /\ UNCHANGED inflight

SpecList == Init /\ [][NextList]_vars

----------------------------------------------------------------------------
(* SpecOverview: the system overview over seeded and hand-made stores. *)

\* No capacity; capacities that cancel; a utilisation of two thirds; one
\* that is out of service.
HeatCenterOverviewBodies ==
    { "max_capacity_mw" :> Some(0) @@ "current_output_mw" :> Some(50),
      "max_capacity_mw" :> Some(0 - 30) @@ "current_output_mw" :> Some(10),
      "max_capacity_mw" :> Some(30) @@ "current_output_mw" :> Some(20),
      "max_capacity_mw" :> Some(30) @@ "current_output_mw" :> Some(20)
          @@ "is_active" :> Some(FALSE) }

DemandSiteOverviewBodies ==
    { "peak_demand_mw" :> Some(0), "peak_demand_mw" :> Some(70) }

SeedCenterIds == DOMAIN SeedHeatCenters
SeedRouteIds == DOMAIN SeedRoutes

NextOverview ==
    \/ seed_database
    \/ get_analytics_overview /\ UNCHANGED inflight
    \/ \E b \in HeatCenterOverviewBodies :
          /\ create_heat_center(b)
          /\ DOMAIN heat_centers' \subseteq 1 .. MaxCenters
          /\ UNCHANGED inflight
    \/ \E b \in DemandSiteOverviewBodies :
          /\ create_demand_site(b)
          /\ DOMAIN demand_sites' \subseteq 1 .. MaxSites
          /\ UNCHANGED inflight
    \/ \E b \in RouteListBodies :
          /\ create_route(b)
          /\ DOMAIN routes' \subseteq 1 .. MaxRoutes
          /\ UNCHANGED inflight
    \/ \E i \in SeedCenterIds :
          /\ update_heat_center(i, "is_active" :> Some(FALSE))
          /\ UNCHANGED inflight
    \/ \E i \in SeedRouteIds : delete_route(i) /\ UNCHANGED inflight

SpecOverview == Init /\ [][NextOverview]_vars

----------------------------------------------------------------------------
(* SpecAnalytics: the three analytics views over records that the create    *)
(* and update endpoints have written.                                       *)

\* No capacity with an output; a utilisation of two thirds.
HeatCenterAnalyticsBodies ==
    { "max_capacity_mw" :> Some(0) @@ "current_output_mw" :> Some(50),
      "max_capacity_mw" :> Some(30) @@ "current_output_mw" :> Some(20) }

\* No peak demand with a demand; a utilisation of one half.
DemandSiteAnalyticsBodies ==
    { "peak_demand_mw" :> Some(0) @@ "current_demand_mw" :> Some(5),
      "peak_demand_mw" :> Some(70) @@ "current_demand_mw" :> Some(35) }

\* Routes of three pairs, each with its own flows; the one out of heat
\* center 2 is under maintenance and the others take the default status.
RouteFlowBody(h, d, max, cur) ==
    "heat_center_id" :> Some(h) @@ "demand_site_id" :> Some(d)
        @@ "distance_km" :> Some(8) @@ "max_flow_capacity_mw" :> Some(max)
        @@ "current_flow_mw" :> Some(cur)
        @@ (IF h = 2 THEN "status" :> Some("maintenance") ELSE <<>>)

RouteAnalyticsBodies ==
    { RouteFlowBody(1, 1, 100, 60), RouteFlowBody(2, 1, 150, 90),
      RouteFlowBody(1, 2, 40, 25) }

NextAnalytics ==
    \/ \E b \in HeatCenterAnalyticsBodies :
          /\ create_heat_center(b)
          /\ DOMAIN heat_centers' \subseteq 1 .. MaxCenters
          /\ UNCHANGED inflight
    \/ /\ update_heat_center(1, "current_output_mw" :> None)
       /\ UNCHANGED inflight
    \/ \E b \in DemandSiteAnalyticsBodies :
          /\ create_demand_site(b)
          /\ DOMAIN demand_sites' \subseteq 1 .. MaxSites
          /\ UNCHANGED inflight
    \/ /\ update_demand_site(1, "current_demand_mw" :> None)
       /\ UNCHANGED inflight
    \/ \E b \in RouteAnalyticsBodies :
          /\ create_route(b)
          /\ DOMAIN routes' \subseteq 1 .. MaxRoutes
          /\ UNCHANGED inflight
    \/ /\ set_config(Some("route_width"), Some(<<"3">>), Some("integer"), None)
       /\ UNCHANGED inflight
    \/ get_analytics_overview /\ UNCHANGED inflight
    \/ \E i \in CenterIds : get_heat_center_analytics(i) /\ UNCHANGED inflight
    \/ \E i \in SiteIds : get_demand_site_analytics(i) /\ UNCHANGED inflight

SpecAnalytics == Init /\ [][NextAnalytics]_vars

----------------------------------------------------------------------------
(* SpecConfig: reads and writes of the configuration store. *)

\* No path operation writes is_active, so an inactive entry is one that was
\* put into the table beside the API: the store starts empty or with one.
HiddenConfig ==
    [f \in SystemConfigCols |->
        IF f = "config_key" THEN Some("hidden")
        ELSE IF f = "config_value" THEN Some(<<"0">>)
        ELSE IF f = "config_type" THEN Some("integer")
        ELSE IF f = "description" THEN None
        ELSE Some(FALSE)]

InitConfig ==
    /\ heat_centers = <<>>
    /\ demand_sites = <<>>
    /\ routes = <<>>
    /\ system_config \in { <<>>, <<HiddenConfig>> }
    /\ now = 0
    /\ last = Response("none", 0, <<>>, 0, <<>>)
    /\ sessions = {}
    /\ requests = <<>>

\* <<config_key, config_value, config_type, description>> of the POST /config
\* requests: texts that convert and texts that do not, with and without a
\* type and a description, and one request without a value.
ConfigRequests ==
    { <<Some("route_width"), Some(<<"3">>), Some("integer"), Some("pixels")>>,
      <<Some("route_width"), Some(<<"w", "i", "d", "e">>), Some("integer"), None>>,
      <<Some("route_width"), Some(<<"5">>), None, Some("")>>,
      <<Some("legend"), Some(<<"{">>), Some("json"), None>>,
      <<Some("legend"), Some(<<"{", "}">>), Some("json"), Some("map legend")>>,
      <<Some("legend"), Some(<<"Y", "e", "s">>), Some("boolean"), None>>,
      <<Some("hidden"), Some(<<"1", ".", "5">>), Some("float"), None>>,
      <<Some("hidden"), None, None, None>> }

NextConfig ==
    \/ get_config /\ UNCHANGED inflight
    \/ \E q \in ConfigRequests :
          /\ set_config(q[1], q[2], q[3], q[4])
          /\ UNCHANGED inflight

SpecConfig == InitConfig /\ [][NextConfig]_vars

----------------------------------------------------------------------------
(* SpecRequests: requests in flight together.                               *)
(*                                                                          *)
(* FastAPI resolves Depends(get_db) before it calls the path operation and  *)
(* finishes the generator after it: get_db runs to its yield, the handler   *)
(* runs, and the finally clause closes the session.  The event loop may     *)
(* serve other requests between the three steps, and none while a handler   *)
(* runs.  Of each request the model keeps, beside its position, what the    *)
(* properties look back at: the sessions it has opened, its status, how     *)
(* many handlers had run when it came and when it ran, and the row an       *)
(* update found.                                                            *)

\* Every path operation but health_check declares db: Session = Depends(get_db).
DependsOnDb(op) == op # "health_check"

\* The requests whose handler has run.
Handled == {rid \in DOMAIN requests : requests[rid].seq > 0}

\* db = SessionLocal(); yield db
get_db_yield(q) ==
    /\ Len(requests) < MaxRequests
    /\ requests' =
          Append(requests,
                 [op |-> q[1], id |-> q[2], req |-> q[3], pc |-> "yield",
                  opened |-> IF DependsOnDb(q[1]) THEN 1 ELSE 0,
                  status |-> 0, arrived |-> Cardinality(Handled), seq |-> 0,
                  before |-> <<>>])
    /\ sessions' = IF DependsOnDb(q[1])
                   THEN sessions \cup {Len(requests) + 1}
                   ELSE sessions
    /\ UNCHANGED <<store, now, last>>

\* The handler the router calls for the request.
PathOperation(r) ==
    CASE r.op = "update_heat_center" -> update_heat_center(r.id, r.req)
      [] r.op = "delete_heat_center" -> delete_heat_center(r.id)
      [] r.op = "create_route" -> create_route(r.req)
      [] r.op = "health_check" -> health_check
      [] r.op = "create_heat_center" -> create_heat_center(r.req)
      [] r.op = "create_demand_site" -> create_demand_site(r.req)
      [] r.op = "delete_demand_site" -> delete_demand_site(r.id)
      [] r.op = "delete_route" -> delete_route(r.id)

\* The handler of request rid runs, to its return or to the exception it
\* raises.
Handle(rid) ==
    /\ requests[rid].pc = "yield"
    /\ PathOperation(requests[rid])
    /\ requests' =
          [requests EXCEPT ![rid] =
              [@ EXCEPT !.pc = "returned",
                        !.status = last'.status,
                        !.seq = Cardinality(Handled) + 1,
                        !.before =
                            IF /\ requests[rid].op = "update_heat_center"
                               /\ requests[rid].id \in DOMAIN heat_centers
                            THEN heat_centers[requests[rid].id]
                            ELSE <<>>]]
    /\ UNCHANGED sessions

\* finally: db.close()
get_db_close_returned(rid) ==
    /\ requests[rid].pc = "returned"
    /\ requests' = [requests EXCEPT ![rid].pc = "closed"]
    /\ sessions' = IF requests[rid].status = 200 THEN sessions \ {rid}
                   ELSE sessions
    /\ UNCHANGED <<store, now, last>>

get_db_close(rid) ==
    /\ requests[rid].pc = "returned"
    /\ requests' = [requests EXCEPT ![rid].pc = "closed"]
    /\ sessions' = sessions \ {rid}
    /\ UNCHANGED <<store, now, last>>

\* The store after POST /heat-centers twice, POST /demand-sites and
\* POST /routes between heat center 1 and the demand site.
InitRequests ==
    /\ now = 0
    /\ heat_centers =
          [i \in 1 .. 2 |->
              InsertedRow(Dict("max_capacity_mw" :> Some(100), HeatCenterCols,
                               HeatCenterSchemaDefault), HeatCenterColumnDefault)]
    /\ demand_sites =
          [i \in 1 .. 1 |->
              InsertedRow(Dict("peak_demand_mw" :> Some(80), DemandSiteCols,
                               DemandSiteSchemaDefault), DemandSiteColumnDefault)]
    /\ routes =
          [i \in 1 .. 1 |->
              InsertedRow(Dict(RouteBody(1, 1), RouteCols, RouteSchemaDefault),
                          RouteColumnDefault)]
    /\ system_config = <<>>
    /\ last = Response("none", 0, <<>>, 0, <<>>)
    /\ sessions = {}
    /\ requests = <<>>

\* <<operation, path id, body>> of the requests: updates of heat center 1 with
\* disjoint and with common fields, one that breaks NOT NULL and one of an id
\* that does not resolve; deletes that are refused and accepted; creates that
\* are accepted and refused; a health check.
Requests ==
    { <<"update_heat_center", 1, "max_capacity_mw" :> Some(200)>>,
      <<"update_heat_center", 1, "is_active" :> Some(FALSE)>>,
      <<"update_heat_center", 1,
        "max_capacity_mw" :> Some(300) @@ "is_active" :> Some(TRUE)>>,
      <<"update_heat_center", 1,
        "current_output_mw" :> Some(50) @@ "max_capacity_mw" :> None>>,
      <<"update_heat_center", 3, "is_active" :> Some(FALSE)>>,
      <<"delete_heat_center", 1, <<>> >>,
      <<"delete_heat_center", 2, <<>> >>,
      <<"create_route", 0, RouteBody(2, 1)>>,
      <<"create_route", 0, RouteBody(1, 1)>>,
      <<"health_check", 0, <<>> >> }

RequestIds == 1 .. MaxRequests

NextRequests ==
    \/ \E q \in Requests : get_db_yield(q)
    \/ \E rid \in DOMAIN requests : Handle(rid)
    \/ \E rid \in DOMAIN requests : get_db_close(rid)

SpecRequests == InitRequests /\ [][NextRequests]_vars

\* The event loop runs every task that is ready, and neither a handler nor
\* db.close() waits for anything.
SpecRequestsFair ==
    /\ SpecRequests
    /\ \A rid \in RequestIds :
          WF_vars(rid \in DOMAIN requests /\ Handle(rid))
          /\ WF_vars(rid \in DOMAIN requests /\ get_db_close(rid))

----------------------------------------------------------------------------
(* SpecIntegrity: creates and deletes of routes and of their endpoints in   *)
(* flight together.                                                         *)

\* The store after POST /heat-centers twice, POST /demand-sites twice and
\* POST /routes between heat center 2 and demand site 1, with the default
\* status.
InitIntegrity ==
    /\ now = 0
    /\ heat_centers =
          [i \in 1 .. 2 |->
              InsertedRow(Dict("max_capacity_mw" :> Some(100), HeatCenterCols,
                               HeatCenterSchemaDefault), HeatCenterColumnDefault)]
    /\ demand_sites =
          [i \in 1 .. 2 |->
              InsertedRow(Dict("peak_demand_mw" :> Some(80), DemandSiteCols,
                               DemandSiteSchemaDefault), DemandSiteColumnDefault)]
    /\ routes =
          [i \in 1 .. 1 |->
              InsertedRow(Dict(RouteBody(2, 1), RouteCols, RouteSchemaDefault),
                          RouteColumnDefault)]
    /\ system_config = <<>>
    /\ last = Response("none", 0, <<>>, 0, <<>>)
    /\ sessions = {}
    /\ requests = <<>>

\* <<operation, path id, body>> of the requests: a planned route between the
\* endpoints that have none and a second route between those that have one;
\* the delete of every endpoint and of both route ids; creates of endpoints,
\* which take the key of the last one deleted.
IntegrityRequests ==
    { <<"create_route", 0, RouteBody(1, 2)>>,
      <<"create_route", 0, RouteBody(2, 1)>>,
      <<"delete_heat_center", 1, <<>> >>,
      <<"delete_heat_center", 2, <<>> >>,
      <<"delete_demand_site", 1, <<>> >>,
      <<"delete_demand_site", 2, <<>> >>,
      <<"delete_route", 1, <<>> >>,
      <<"delete_route", 2, <<>> >>,
      <<"create_heat_center", 0, "max_capacity_mw" :> Some(100)>>,
      <<"create_demand_site", 0, "peak_demand_mw" :> Some(80)>> }

NextIntegrity ==
    \/ \E q \in IntegrityRequests : get_db_yield(q)
    \/ \E rid \in DOMAIN requests : Handle(rid)
    \/ \E rid \in DOMAIN requests : get_db_close(rid)

SpecIntegrity == InitIntegrity /\ [][NextIntegrity]_vars

----------------------------------------------------------------------------
(* Properties *)

\* A step that handles a request: every action but Tick leaves the clock.
RequestStep == now' = now

\* The routes that reference heat center id / demand site id.
ReferencingCenter(id) ==
    {r \in DOMAIN routes : id \in routes[r]["heat_center_id"]}
ReferencingSite(id) ==
    {r \in DOMAIN routes : id \in routes[r]["demand_site_id"]}

\* C1: in every reachable state no two live routes share the same
\* (heat_center_id, demand_site_id) pair.
C1_UniquePairs ==
    \A r1, r2 \in DOMAIN routes :
        (/\ routes[r1]["heat_center_id"] = routes[r2]["heat_center_id"]
         /\ routes[r1]["demand_site_id"] = routes[r2]["demand_site_id"])
        => r1 = r2

\* Two routes are live and a create_route for a connected pair was refused.
C1_Witness ==
    /\ Cardinality(DOMAIN routes) >= 2
    /\ last.op = "create_route"
    /\ last.status = 400

C3_MissingEndpoint ==
    [][(RequestStep /\ last'.op = "create_route" /\ last'.status # 422) =>
        LET hc == Val(last'.req["heat_center_id"])
            ds == Val(last'.req["demand_site_id"])
        IN  /\ hc \notin DOMAIN heat_centers =>
                /\ last'.status = 404
                /\ last'.body = "Heat center not found"
                /\ UNCHANGED store
            /\ (hc \in DOMAIN heat_centers /\ ds \notin DOMAIN demand_sites) =>
                /\ last'.status = 404
                /\ last'.body = "Demand site not found"
                /\ UNCHANGED store
    ]_vars

\* A create_route with neither endpoint in the store was answered, while a
\* demand site exists.
C3_Witness ==
    /\ last.op = "create_route"
    /\ last.status = 404
    /\ Val(last.req["heat_center_id"]) \notin DOMAIN heat_centers
    /\ Val(last.req["demand_site_id"]) \notin DOMAIN demand_sites
    /\ DOMAIN demand_sites # {}

\* C4: create_route for two existing endpoints answers 400 and leaves the
\* routes as they were when a route connects the pair, and otherwise answers
\* 200 and adds exactly one route, under an identifier no live route has.
C4_DuplicateOrFresh ==
    [][(RequestStep /\ last'.op = "create_route" /\ last'.status # 422) =>
        LET hc == Val(last'.req["heat_center_id"])
            ds == Val(last'.req["demand_site_id"])
        IN  (hc \in DOMAIN heat_centers /\ ds \in DOMAIN demand_sites) =>
                IF ReferencingCenter(hc) \cap ReferencingSite(ds) # {}
                THEN last'.status = 400 /\ UNCHANGED store
                ELSE /\ last'.status = 200
                     /\ \E id \in DOMAIN routes' \ DOMAIN routes :
                          /\ DOMAIN routes' = DOMAIN routes \cup {id}
                          /\ routes'[id]["heat_center_id"] = Some(hc)
                          /\ routes'[id]["demand_site_id"] = Some(ds)
                          /\ last'.body.id = id
                     /\ \A r \in DOMAIN routes : routes'[r] = routes[r]
                     /\ UNCHANGED <<heat_centers, demand_sites>>
    ]_vars

\* A second route was created beside a live one.
C4_Witness ==
    /\ last.op = "create_route"
    /\ last.status = 200
    /\ Cardinality(DOMAIN routes) = 2
    /\ last.body.id \in DOMAIN routes

\* C7: get, update, delete and the per-entity analytics views called with an
\* identifier that is not the key of a live record answer 404 and leave the
\* store as it was.
CenterOps ==
    {"get_heat_center", "update_heat_center", "delete_heat_center",
     "get_heat_center_analytics"}
SiteOps ==
    {"get_demand_site", "update_demand_site", "delete_demand_site",
     "get_demand_site_analytics"}
RouteOps == {"get_route", "delete_route"}

Unresolved(op, id) ==
    \/ op \in CenterOps /\ id \notin DOMAIN heat_centers
    \/ op \in SiteOps /\ id \notin DOMAIN demand_sites
    \/ op \in RouteOps /\ id \notin DOMAIN routes

C7_NotFound ==
    [][(RequestStep /\ Unresolved(last'.op, last'.id)) =>
        last'.status = 404 /\ UNCHANGED store]_vars

\* An update named a heat center that is not in a store that holds others.
C7_Witness ==
    /\ last.op = "update_heat_center"
    /\ last.status = 404
    /\ last.id \notin DOMAIN heat_centers
    /\ DOMAIN heat_centers # {}

\* The columns of the request schema that a NOT NULL constraint covers and
\* the patch sets to null.
NullOnRequired(patch, notNull) ==
    \E f \in DOMAIN patch \cap notNull : patch[f] = None

\* row is old with exactly the fields of patch replaced by the patch's
\* values, updated_at aside.
ExactlyPatched(new, old, patch, cols) ==
    /\ \A f \in cols :
          new[f] = IF f \in DOMAIN patch THEN patch[f] ELSE old[f]
    /\ new["created_at"] = old["created_at"]

\* Every row of tbl but id is in tbl2 as it was, and no other row is.
OthersKept(tbl2, tbl, id) ==
    /\ DOMAIN tbl2 = DOMAIN tbl
    /\ \A i \in DOMAIN tbl \ {id} : tbl2[i] = tbl[i]

\* C5 as stated: an update of an existing record changes exactly the fields
\* supplied, a field supplied as null included, and leaves the other fields
\* and every other record at their prior values.
C5_AsStated ==
    [][RequestStep =>
        /\ (last'.op = "update_heat_center" /\ last'.id \in DOMAIN heat_centers) =>
              /\ OthersKept(heat_centers', heat_centers, last'.id)
              /\ ExactlyPatched(heat_centers'[last'.id], heat_centers[last'.id],
                                last'.req, HeatCenterCols)
              /\ UNCHANGED <<demand_sites, routes>>
        /\ (last'.op = "update_demand_site" /\ last'.id \in DOMAIN demand_sites) =>
              /\ OthersKept(demand_sites', demand_sites, last'.id)
              /\ ExactlyPatched(demand_sites'[last'.id], demand_sites[last'.id],
                                last'.req, DemandSiteCols)
              /\ UNCHANGED <<heat_centers, routes>>
    ]_vars

\* C5: an update of an existing record that supplies null for no NOT NULL
\* column answers 200, changes exactly the fields supplied (a nullable field
\* supplied as null becomes NULL) and leaves every other field but
\* updated_at and every other record at their prior values; one that
\* supplies null for a NOT NULL column answers 500 and changes nothing.
C5_PartialUpdate ==
    [][RequestStep =>
        /\ (last'.op = "update_heat_center" /\ last'.id \in DOMAIN heat_centers) =>
              IF NullOnRequired(last'.req, HeatCenterNotNull)
              THEN last'.status = 500 /\ UNCHANGED store
              ELSE /\ last'.status = 200
                   /\ OthersKept(heat_centers', heat_centers, last'.id)
                   /\ ExactlyPatched(heat_centers'[last'.id], heat_centers[last'.id],
                                     last'.req, HeatCenterCols)
                   /\ UNCHANGED <<demand_sites, routes>>
        /\ (last'.op = "update_demand_site" /\ last'.id \in DOMAIN demand_sites) =>
              IF NullOnRequired(last'.req, DemandSiteNotNull)
              THEN last'.status = 500 /\ UNCHANGED store
              ELSE /\ last'.status = 200
                   /\ OthersKept(demand_sites', demand_sites, last'.id)
                   /\ ExactlyPatched(demand_sites'[last'.id], demand_sites[last'.id],
                                     last'.req, DemandSiteCols)
                   /\ UNCHANGED <<heat_centers, routes>>
    ]_vars

\* An update set the nullable current_output_mw of one of two heat centers
\* to NULL and the other one holds a value there.
C5_Witness ==
    /\ last.op = "update_heat_center"
    /\ last.status = 200
    /\ "current_output_mw" \in DOMAIN last.req
    /\ last.req["current_output_mw"] = None
    /\ last.id \in DOMAIN heat_centers
    /\ heat_centers[last.id]["current_output_mw"] = None
    /\ \E j \in DOMAIN heat_centers \ {last.id} :
          heat_centers[j]["current_output_mw"] = Some(50)

\* The row a successful create or update request wrote.
Written(tbl, r) == IF r.op \in {"create_heat_center", "create_demand_site"}
                   THEN tbl[r.body.id] ELSE tbl[r.id]

WriteOps ==
    {"create_heat_center", "update_heat_center",
     "create_demand_site", "update_demand_site"}

TableOf(op, hc, ds) ==
    IF op \in {"create_heat_center", "update_heat_center"} THEN hc ELSE ds

\* created_at of a row that stays in its table stays.
CreatedAtKept(tbl2, tbl) ==
    \A i \in DOMAIN tbl \cap DOMAIN tbl2 :
        tbl2[i]["created_at"] = tbl[i]["created_at"]

\* C6 as stated: created_at never changes, and every successful create and
\* every successful update sets updated_at.
C6_AsStated ==
    [][/\ CreatedAtKept(heat_centers', heat_centers)
       /\ CreatedAtKept(demand_sites', demand_sites)
       /\ (RequestStep /\ last'.op \in WriteOps /\ last'.status = 200) =>
              Written(TableOf(last'.op, heat_centers', demand_sites'),
                      last')["updated_at"] = Some(now)
    ]_vars

\* C6: created_at is set to the clock at insertion and never changes while
\* the row lives; updated_at is NULL after the create and is set to the
\* clock by every successful update that changes the value of at least one
\* column; an update that supplies no field, or only values equal to the
\* stored ones, leaves updated_at as it was.
C6_Timestamps ==
    [][/\ CreatedAtKept(heat_centers', heat_centers)
       /\ CreatedAtKept(demand_sites', demand_sites)
       /\ (RequestStep /\ last'.op \in WriteOps /\ last'.status = 200) =>
            LET new == Written(TableOf(last'.op, heat_centers', demand_sites'), last')
                old == TableOf(last'.op, heat_centers, demand_sites)[last'.id]
            IN  IF last'.op \in {"create_heat_center", "create_demand_site"}
                THEN new["created_at"] = Some(now) /\ new["updated_at"] = None
                ELSE IF \E f \in DOMAIN last'.req : last'.req[f] # old[f]
                THEN new["updated_at"] = Some(now)
                ELSE new["updated_at"] = old["updated_at"]
    ]_vars

\* An update that supplied a value equal to the stored one was answered
\* after the clock had moved, and the row's updated_at is still NULL.
C6_Witness ==
    /\ last.op = "update_heat_center"
    /\ last.status = 200
    /\ DOMAIN last.req # {}
    /\ last.id \in DOMAIN heat_centers
    /\ heat_centers[last.id]["updated_at"] = None
    /\ heat_centers[last.id]["created_at"] # Some(now)

ListOps == {"get_heat_centers", "get_demand_sites", "get_routes"}

\* C8 as stated: a list request with limit = 5000 succeeds with at most 1000
\* records, one with limit = 0 is rejected, and every successful list returns
\* at most min(limit, 1000) records.
C8_AsStated ==
    (last.op \in ListOps /\ last.req.skip = None /\ last.req.limit # None) =>
        LET limit == Val(last.req.limit)
        IN  /\ limit = 0 => last.status = 422
            /\ limit = 5 * LimitMax =>
                  last.status = 200 /\ Cardinality(DOMAIN last.body) <= LimitMax
            /\ last.status = 200 =>
                  /\ Cardinality(DOMAIN last.body) <= limit
                  /\ Cardinality(DOMAIN last.body) <= LimitMax

\* C8: a list request whose limit is outside 1 .. 1000 (0 or 5000, say) is
\* rejected as invalid and none is clamped; a list request with skip >= 0
\* and limit in 1 .. 1000 (100 when left out) succeeds and returns rows of
\* the table, at most limit and so at most 1000 of them.
C8_LimitRange ==
    last.op \in ListOps =>
        LET limit == IF last.req.limit = None THEN LimitDefault
                     ELSE Val(last.req.limit)
            skip == IF last.req.skip = None THEN 0 ELSE Val(last.req.skip)
        IN  /\ (limit < 1 \/ limit > LimitMax \/ skip < 0) => last.status = 422
            /\ (limit >= 1 /\ limit <= LimitMax /\ skip >= 0) => last.status = 200
            /\ last.status = 200 =>
                  /\ Cardinality(DOMAIN last.body) <= limit
                  /\ Cardinality(DOMAIN last.body) <= LimitMax
                  /\ DOMAIN last.body \subseteq
                        DOMAIN (CASE last.op = "get_heat_centers" -> heat_centers
                                  [] last.op = "get_demand_sites" -> demand_sites
                                  [] OTHER -> routes)

\* A list of heat centers with limit = 1 returned one of two rows.
C8_Witness ==
    /\ last.op = "get_heat_centers"
    /\ last.status = 200
    /\ last.req.limit = Some(1)
    /\ Cardinality(DOMAIN last.body) = 1
    /\ Cardinality(DOMAIN heat_centers) = 2

\* The totals of the store, over every row.
Total(tbl, col) == SumOver(tbl, DOMAIN tbl, col)

\* C9: the system overview never fails; on the empty store, and whenever
\* the total of max_capacity, the total of peak_demand or the number of
\* routes is 0, capacity_utilization_percent, demand_coverage_percent and
\* average_route_distance_km respectively are 0.
C9_NoDivisionError ==
    last.op = "get_analytics_overview" =>
        /\ last.status = 200
        /\ Total(heat_centers, "max_capacity_mw") = 0 =>
              last.body.capacity_utilization_percent = 0
        /\ Total(demand_sites, "peak_demand_mw") = 0 =>
              last.body.demand_coverage_percent = 0
        /\ DOMAIN routes = {} => last.body.average_route_distance_km = 0

\* The overview was asked of a store whose heat centers' capacities cancel
\* to 0 and whose demand sites have no peak demand.
C9_Witness ==
    /\ last.op = "get_analytics_overview"
    /\ last.status = 200
    /\ DOMAIN heat_centers # {}
    /\ \A i \in DOMAIN heat_centers : heat_centers[i]["max_capacity_mw"] # Some(0)
    /\ Total(heat_centers, "max_capacity_mw") = 0
    /\ DOMAIN demand_sites # {}
    /\ Total(demand_sites, "peak_demand_mw") = 0

\* p, in hundredths, is num / den rounded to the nearest hundredth.
Abs(x) == IF x < 0 THEN 0 - x ELSE x

Nearest(p, num, den) == 2 * Abs(p * den - 100 * num) <= Abs(den)

\* The heat centers are the four of the seed data, active or not.
SeedValues ==
    /\ DOMAIN heat_centers = DOMAIN SeedHeatCenters
    /\ \A i \in DOMAIN heat_centers :
          /\ heat_centers[i]["max_capacity_mw"] =
                SeedHeatCenters[i]["max_capacity_mw"]
          /\ heat_centers[i]["current_output_mw"] =
                SeedHeatCenters[i]["current_output_mw"]

\* C10 as stated: capacity_utilization_percent is the total of
\* current_output over all heat centers divided by the total of
\* max_capacity, times 100, rounded to two decimals, wherever that quotient
\* exists; the seed values give 77.33.
C10_AsStated ==
    last.op = "get_analytics_overview" =>
        /\ Total(heat_centers, "max_capacity_mw") # 0 =>
              Nearest(last.body.capacity_utilization_percent,
                      100 * Total(heat_centers, "current_output_mw"),
                      Total(heat_centers, "max_capacity_mw"))
        /\ SeedValues => last.body.capacity_utilization_percent = 7733

\* C10: when the total of max_capacity over all heat centers, active or not,
\* is positive, capacity_utilization_percent is the total of current_output
\* over all of them divided by it, times 100, rounded to two decimals; when
\* that total is 0 or negative it is 0; the capacities 45, 75, 35, 25 with
\* the outputs 32.5, 58.2, 28.7, 19.8 give 77.33.
C10_CapacityUtilization ==
    last.op = "get_analytics_overview" =>
        /\ Total(heat_centers, "max_capacity_mw") > 0 =>
              Nearest(last.body.capacity_utilization_percent,
                      100 * Total(heat_centers, "current_output_mw"),
                      Total(heat_centers, "max_capacity_mw"))
        /\ Total(heat_centers, "max_capacity_mw") <= 0 =>
              last.body.capacity_utilization_percent = 0
        /\ SeedValues => last.body.capacity_utilization_percent = 7733

\* The overview of the seeded store with one heat center out of service.
C10_Witness ==
    /\ last.op = "get_analytics_overview"
    /\ SeedValues
    /\ \E i \in DOMAIN heat_centers : heat_centers[i]["is_active"] = Some(FALSE)
    /\ last.body.capacity_utilization_percent = 7733

----------------------------------------------------------------------------
(* Properties of the analytics views *)

PerEntityOps == {"get_heat_center_analytics", "get_demand_site_analytics"}
AnalyticsOps == PerEntityOps \cup {"get_analytics_overview"}

\* The record a per-entity analytics request named, when it exists.
Viewed ==
    IF last.op = "get_heat_center_analytics" THEN heat_centers[last.id]
    ELSE demand_sites[last.id]
ViewedExists ==
    \/ last.op = "get_heat_center_analytics" /\ last.id \in DOMAIN heat_centers
    \/ last.op = "get_demand_site_analytics" /\ last.id \in DOMAIN demand_sites

\* C11 as the specification states it: per-entity analytics of an existing
\* record, whatever state the create and update endpoints left it in, is a
\* result and not an error, with 0 for each percentage whose denominator is 0.
C11_AsStated ==
    (last.op \in PerEntityOps /\ ViewedExists) =>
        /\ last.status = 200
        /\ (/\ last.op = "get_heat_center_analytics"
            /\ Viewed["max_capacity_mw"] = Some(0))
              => last.body.capacity_utilization_percent = 0
        /\ (/\ last.op = "get_demand_site_analytics"
            /\ Viewed["peak_demand_mw"] = Some(0))
              => /\ last.body.demand_coverage_percent = 0
                 /\ last.body.current_utilization_percent = 0

\* The entry of route r in a per-entity view; other names the column of the
\* counterpart's id.
EntryOf(r, other) ==
    [ route_id |-> r,
      endpoint |-> routes[r][other],
      distance_km |-> routes[r]["distance_km"],
      current_flow_mw |-> routes[r]["current_flow_mw"],
      max_capacity_mw |-> routes[r]["max_flow_capacity_mw"],
      status |-> routes[r]["status"] ]

\* The sum of column col over the routes rs, each of which has a value there.
RECURSIVE FlowSum(_, _)
FlowSum(rs, col) ==
    IF rs = {} THEN 0
    ELSE LET r == CHOOSE x \in rs : TRUE
         IN  Val(routes[r][col]) + FlowSum(rs \ {r}, col)

C13_ReadOnly ==
    [][(last' # last /\ last'.op \in AnalyticsOps) => UNCHANGED store]_vars

\* Analytics ran over a store with records in each table: a per-entity view
\* of an id that does not resolve.
C13_Witness ==
    /\ last.op = "get_heat_center_analytics"
    /\ last.status = 404
    /\ heat_centers # <<>>
    /\ demand_sites # <<>>
    /\ routes # <<>>
    /\ system_config # <<>>

----------------------------------------------------------------------------
(* Properties of the configuration store *)

Active == {i \in DOMAIN system_config : TRUE \in system_config[i]["is_active"]}
KeysOf(ids) == {k \in {"route_width", "legend", "hidden"} :
                  \E i \in ids : k \in system_config[i]["config_key"]}
EntriesOf(tbl, key) == {i \in DOMAIN tbl : key \in tbl[i]["config_key"]}

\* C14: a GET /config that succeeds returns the fixed default configuration
\* (default_zoom 10, max_zoom 18, min_zoom 5, route_width 3, route_color
\* "#ff4444", ...) exactly when there is no active entry; with an active entry
\* it returns a mapping of exactly the active keys, each with its converted
\* value: no default key is mixed in and no inactive entry shows.
C14_DefaultOrActive ==
    (last.op = "get_config" /\ last.status = 200) =>
        /\ (last.body.map_config = DefaultConfig) <=> (Active = {})
        /\ Active = {} =>
              /\ last.body.map_config.default_zoom = Typed("int", 10)
              /\ last.body.map_config.max_zoom = Typed("int", 18)
              /\ last.body.map_config.min_zoom = Typed("int", 5)
              /\ last.body.map_config.route_width = Typed("int", 3)
              /\ last.body.map_config.route_color = Typed("str", "#ff4444")
        /\ Active # {} =>
              /\ DOMAIN last.body.map_config = KeysOf(Active)
              /\ \A i \in Active :
                    Some(last.body.map_config[Val(system_config[i]["config_key"])])
                        = Coerce(system_config[i]["config_type"],
                                 Val(system_config[i]["config_value"]))

\* GET /config returned the one active key while an inactive entry is stored.
C14_Witness ==
    /\ last.op = "get_config"
    /\ last.status = 200
    /\ DOMAIN last.body.map_config = {"legend"}
    /\ last.body.map_config["legend"] = Typed("bool", TRUE)
    /\ \E i \in DOMAIN system_config : system_config[i]["is_active"] = Some(FALSE)

\* A step that is a POST /config that succeeded.
ConfigSet == last' # last /\ last'.op = "set_config" /\ last'.status = 200

\* The entry of the key of the request after the step: there is one, with the
\* value and the type of the request (the default type when it names none),
\* and every other entry is as before; a new entry is active.
Upserted ==
    LET q == last'.req
        key == Val(q.config_key)
        before == EntriesOf(system_config, key)
        after == EntriesOf(system_config', key)
    IN  /\ Cardinality(after) = 1
        /\ \A i \in after :
              /\ system_config'[i]["config_value"] = q.config_value
              /\ system_config'[i]["config_type"] =
                    (IF q.config_type = None THEN Some("string") ELSE q.config_type)
              /\ before = {} => system_config'[i]["is_active"] = Some(TRUE)
              /\ before # {} =>
                    /\ after = before
                    /\ system_config'[i]["is_active"] = system_config[i]["is_active"]
        /\ DOMAIN system_config' = DOMAIN system_config \cup after
        /\ \A i \in DOMAIN system_config \ after :
              system_config'[i] = system_config[i]

\* C15 as the specification states it: the description of the entry is that
\* of the request, an absent or empty one included.
C15_AsStated ==
    [][ConfigSet =>
          /\ Upserted
          /\ \A i \in EntriesOf(system_config', Val(last'.req.config_key)) :
                system_config'[i]["description"] = last'.req.description]_vars

\* C15: POST /config is an upsert.  On an existing key it overwrites the
\* value and the type of that entry, and the description when the request
\* gives one that is not empty, and keeps the stored description otherwise;
\* on a new key it creates one active entry with the request's value, type
\* and description.  There is never more than one entry for a key.
C15_Upsert ==
    [][ConfigSet =>
          /\ Upserted
          /\ \A i \in EntriesOf(system_config', Val(last'.req.config_key)) :
                system_config'[i]["description"] =
                    (IF \/ i \notin DOMAIN system_config
                        \/ last'.req.description \notin {None, Some("")}
                     THEN last'.req.description
                     ELSE system_config[i]["description"])]_vars

\* A POST /config without a description went to a key that has one.
C15_Witness ==
    /\ last.op = "set_config"
    /\ last.status = 200
    /\ last.req.description = None
    /\ \E i \in EntriesOf(system_config, Val(last.req.config_key)) :
          /\ system_config[i]["description"] = Some("pixels")
          /\ system_config[i]["config_value"] = Some(<<"w", "i", "d", "e">>)

\* The active entries whose text is not of the type of the tag: an integer
\* that is not digits, structured text that is cut short.
Malformed ==
    {i \in Active :
        \/ /\ system_config[i]["config_type"] = Some("integer")
           /\ system_config[i]["config_value"] = Some(<<"w", "i", "d", "e">>)
        \/ /\ system_config[i]["config_type"] = Some("json")
           /\ system_config[i]["config_value"] = Some(<<"{">>)}

\* C16: the POST /config that stores a text its type tag cannot convert
\* succeeds, and while an active entry holds such a text every GET /config
\* fails as a whole: it returns neither the other keys nor the defaults.
C16_AllOrNothing ==
    /\ (last.op = "get_config" /\ Malformed # {}) =>
          /\ last.status = 500
          /\ last.body = "ValueError"
    /\ (last.op = "get_config" /\ Malformed = {}) => last.status = 200
    /\ (last.op = "set_config" /\ last.req.config_value # None) =>
          last.status = 200

\* GET /config failed while one active entry converts and another does not.
C16_Witness ==
    /\ last.op = "get_config"
    /\ last.status = 500
    /\ Malformed # {}
    /\ Active \ Malformed # {}

----------------------------------------------------------------------------
(* Properties of requests in flight *)

\* The sessions of the request are accounted for: opened is the number it
\* has acquired, and its session is open until its get_db has finished and
\* closed from then on.
Scoped(rid, opened) ==
    /\ requests[rid].opened = opened
    /\ (rid \in sessions) <=> (opened = 1 /\ requests[rid].pc # "closed")

\* C17 as the specification states it, the part about the acquisition: every
\* request acquires exactly one store handle.
C17_AsStated ==
    \A rid \in DOMAIN requests : requests[rid].opened = 1

\* C17: every request to a path operation that depends on get_db acquires
\* exactly one session, which is open while the request is served and closed
\* once the request has ended, whatever its status (200, 400, 404, 500), and
\* every session that is open is closed later; a health check acquires none.
C17_HandleReleased ==
    /\ [](/\ sessions \subseteq DOMAIN requests
          /\ \A rid \in DOMAIN requests :
                Scoped(rid, IF requests[rid].op = "health_check" THEN 0 ELSE 1))
    /\ \A rid \in RequestIds : (rid \in sessions) ~> (rid \notin sessions)

\* Requests that ended in a store error and in a conflict have been closed
\* while no session is open.
C17_Witness ==
    /\ sessions = {}
    /\ \E r1, r2 \in DOMAIN requests :
          /\ requests[r1].pc = "closed" /\ requests[r1].status = 500
          /\ requests[r2].pc = "closed" /\ requests[r2].status = 400

\* The step in which the handler of request rid runs.
Handling(rid) == requests[rid].pc = "yield" /\ requests'[rid].pc = "returned"

MutatingOps == {"update_heat_center", "delete_heat_center", "create_route"}

\* The whole change of request r is in the store after the step, and nothing
\* else is: an update has set every field of its body in the row and left
\* the others but updated_at; a delete has removed the row; a create has
\* added one row that has every column, with the values of the body.
Applied(r) ==
    IF r.op = "update_heat_center"
    THEN /\ DOMAIN heat_centers' = DOMAIN heat_centers
         /\ \A f \in HeatCenterCols \cup {"created_at"} :
               heat_centers'[r.id][f] =
                   (IF f \in DOMAIN r.req THEN r.req[f] ELSE heat_centers[r.id][f])
         /\ \A i \in DOMAIN heat_centers \ {r.id} :
               heat_centers'[i] = heat_centers[i]
         /\ UNCHANGED <<demand_sites, routes, system_config>>
    ELSE IF r.op = "delete_heat_center"
    THEN /\ DOMAIN heat_centers' = DOMAIN heat_centers \ {r.id}
         /\ \A i \in DOMAIN heat_centers' : heat_centers'[i] = heat_centers[i]
         /\ UNCHANGED <<demand_sites, routes, system_config>>
    ELSE /\ \E id \in DOMAIN routes' \ DOMAIN routes :
               /\ DOMAIN routes' = DOMAIN routes \cup {id}
               /\ DOMAIN routes'[id] = RouteCols \cup {"created_at", "updated_at"}
               /\ \A f \in DOMAIN r.req : routes'[id][f] = r.req[f]
               /\ \A f \in RouteCols \ DOMAIN r.req : routes'[id][f] # None
         /\ \A i \in DOMAIN routes : routes'[i] = routes[i]
         /\ UNCHANGED <<heat_centers, demand_sites, system_config>>

\* C18: a create, update or delete request either applies all of its
\* changes at once or, when it fails at any step (404, 400, or the store's
\* refusal of the UPDATE), leaves the store exactly as it was: no step shows
\* a record written in part.
C18_Atomic ==
    [][\A rid \in DOMAIN requests :
          (Handling(rid) /\ requests[rid].op \in MutatingOps) =>
              IF requests'[rid].status = 200
              THEN Applied(requests[rid])
              ELSE UNCHANGED store]_vars

\* An update of two fields was refused by the store for the second, and the
\* first is not in the row.
C18_Witness ==
    /\ last.op = "update_heat_center"
    /\ last.status = 500
    /\ last.req["current_output_mw"] = Some(50)
    /\ heat_centers[1]["current_output_mw"] = Some(0)
    /\ \E rid \in DOMAIN requests : requests[rid].status = 200

\* Updates r1 and r2 of one heat center were in flight together (r2 had
\* come before the handler of r1 ran), both succeeded, r2 after r1, and no
\* handler has run since.
Raced(r1, r2) ==
    /\ requests[r1].op = "update_heat_center"
    /\ requests[r2].op = "update_heat_center"
    /\ requests[r1].id = requests[r2].id
    /\ requests[r1].status = 200
    /\ requests[r2].status = 200
    /\ requests[r2].seq = requests[r1].seq + 1
    /\ requests[r2].seq = Cardinality(Handled)
    /\ requests[r2].arrived < requests[r1].seq

\* C20: of two updates of one entity that were in flight together and have
\* both committed, each field has the value of the later commit that supplied
\* it: the fields of disjoint bodies are all there, a field of both bodies
\* has the later value, and a field of neither is what it was before.
C20_FieldGranularity ==
    \A r1, r2 \in DOMAIN requests :
        Raced(r1, r2) =>
            \A f \in HeatCenterCols :
                heat_centers[requests[r1].id][f] =
                    (IF f \in DOMAIN requests[r2].req THEN requests[r2].req[f]
                     ELSE IF f \in DOMAIN requests[r1].req THEN requests[r1].req[f]
                     ELSE requests[r1].before[f])

\* Two updates with disjoint bodies raced and both changes are in the row.
C20_Witness ==
    /\ \E r1, r2 \in DOMAIN requests :
          /\ Raced(r1, r2)
          /\ DOMAIN requests[r1].req \cap DOMAIN requests[r2].req = {}
    /\ heat_centers[1]["max_capacity_mw"] = Some(200)
    /\ heat_centers[1]["is_active"] = Some(FALSE)

\* Row satisfies every filter the list request supplied.
Satisfies(op, row, q) ==
    CASE op = "get_heat_centers" ->
            q.active_only => row["is_active"] = Some(TRUE)
      [] op = "get_demand_sites" ->
            /\ q.connected_only => row["is_connected"] = Some(TRUE)
            /\ q.site_type # None => row["site_type"] = q.site_type
      [] OTHER ->
            /\ q.status # None => row["status"] = q.status
            /\ q.heat_center_id # None =>
                  row["heat_center_id"] = q.heat_center_id
            /\ q.demand_site_id # None =>
                  row["demand_site_id"] = q.demand_site_id

\* C19 as stated: a successful list returns only records that satisfy every
\* filter that was supplied.
C19_AsStated ==
    (last.op \in ListOps /\ last.status = 200) =>
        \A i \in DOMAIN last.body : Satisfies(last.op, last.body[i], last.req)

\* C21: in every state, whatever the order in which the handlers of the
\* requests in flight have run, each route's heat_center_id and
\* demand_site_id are keys of rows of heat_centers and demand_sites.
C21_NoDanglingRoute ==
    \A r \in DOMAIN routes :
        /\ routes[r]["heat_center_id"] # None
        /\ routes[r]["demand_site_id"] # None
        /\ Val(routes[r]["heat_center_id"]) \in DOMAIN heat_centers
        /\ Val(routes[r]["demand_site_id"]) \in DOMAIN demand_sites

\* A create_route came while its demand site was there, the delete of the
\* demand site ran before its handler, and the create was refused.
C21_Witness ==
    \E r1, r2 \in DOMAIN requests :
        /\ requests[r1].op = "create_route"
        /\ requests[r1].req = RouteBody(1, 2)
        /\ requests[r2].op = "delete_demand_site"
        /\ requests[r2].id = 2
        /\ requests[r2].status = 200
        /\ requests[r1].arrived < requests[r2].seq
        /\ requests[r2].seq < requests[r1].seq
        /\ requests[r1].status = 404
        /\ 2 \notin DOMAIN demand_sites

\* C22: the handler of a delete_route of a route that is there answers 200,
\* removes that route whatever its status and endpoints, and leaves every
\* other row; the handler of a delete of a heat center or demand site that
\* is there and that no route refers to (any longer) answers 200 and removes
\* it.
C22_DeleteRoute ==
    [][\A rid \in DOMAIN requests :
          Handling(rid) =>
              LET r == requests[rid]
              IN  /\ (r.op = "delete_route" /\ r.id \in DOMAIN routes) =>
                        /\ requests'[rid].status = 200
                        /\ routes' = Remove(routes, r.id)
                        /\ UNCHANGED <<heat_centers, demand_sites, system_config>>
                  /\ (/\ r.op = "delete_heat_center"
                      /\ r.id \in DOMAIN heat_centers
                      /\ \A i \in DOMAIN routes :
                            routes[i]["heat_center_id"] # Some(r.id)) =>
                        /\ requests'[rid].status = 200
                        /\ heat_centers' = Remove(heat_centers, r.id)
                  /\ (/\ r.op = "delete_demand_site"
                      /\ r.id \in DOMAIN demand_sites
                      /\ \A i \in DOMAIN routes :
                            routes[i]["demand_site_id"] # Some(r.id)) =>
                        /\ requests'[rid].status = 200
                        /\ demand_sites' = Remove(demand_sites, r.id)]_vars

\* The active route between heat center 2 and demand site 1 was deleted and
\* the delete of heat center 2, which came while the route was there, went
\* through afterwards.
C22_Witness ==
    \E r1, r2 \in DOMAIN requests :
        /\ requests[r1].op = "delete_route"
        /\ requests[r1].id = 1
        /\ requests[r1].status = 200
        /\ requests[r2].op = "delete_heat_center"
        /\ requests[r2].id = 2
        /\ requests[r2].status = 200
        /\ requests[r1].seq < requests[r2].seq
        /\ routes = <<>>
        /\ DOMAIN heat_centers = {1}

=============================================================================
